---- MODULE Spec2Model ----
(***************************************************************************)
(* The SEP-1 currency directory builder of abroad/sep1_currencies.py:      *)
(* field validators, validate_currency_entry, the defaulting pass, the     *)
(* SEP1_CURRENCIES loader, the merge loop of build_sep1_currencies and     *)
(* _dedupe_currencies.                                                     *)
(*                                                                         *)
(* Python/JSON values are records of one shape, so that any two of them    *)
(* can be compared:  t  is the type ("null", "bool", "int", "str", "list", *)
(* "obj"),  s  the text of a str,  n  the number of an int (and 1/0 for a  *)
(* bool, which Python treats as an int),  l  the items of a list,  o  the  *)
(* fields of an object.  A dict (a currency entry) is a function from its  *)
(* keys to values; a key that is absent is not in its DOMAIN.              *)
(***************************************************************************)
EXTENDS Integers, Sequences, FiniteSets, TLC

VARIABLES
    registry,           \* Asset.objects.all(): the asset rows, in query order
    raw,                \* os.environ.get("SEP1_CURRENCIES"), once read
    data,               \* json.loads(raw)
    currencies,         \* the loader's list of validated entries
    idx,                \* the loader's enumerate() index
    currencies_by_key,  \* the builder's dict, in insertion order
    i,                  \* how many assets the first loop has consumed
    j,                  \* how many loaded entries the second loop has consumed
    pc,                 \* where build_sep1_currencies is
    result,             \* the list build_sep1_currencies returned
    exc,                \* the exception that left build_sep1_currencies
    call,               \* the latest validate_currency_entry call of the build:
                        \* its call site and the strict argument it got
    entry_in,           \* argument of a single validate / defaulting call
    strict_in,          \* its strict flag
    out,                \* what that call returned or raised
    fpc,                \* which single call was made
    secret,             \* settings.ABROAD_WEBHOOK_SECRET
    transactions,       \* the stored Transaction rows
    request,            \* the latest request the webhook view took up
    response,           \* the JsonResponse it answered, once it has
    polaris_tx,         \* the row the view has loaded and not yet saved
    transaction         \* the row loaded for an interactive flow that has
                        \* not yet called after_interactive_flow

vars == <<registry, raw, data, currencies, idx, currencies_by_key, i, j, pc,
          result, exc, call, entry_in, strict_in, out, fpc,
          secret, transactions, request, response, polaris_tx, transaction>>

buildVars == <<registry, raw, data, currencies, idx, currencies_by_key, i, j,
               pc, result, exc, call>>

callVars == <<entry_in, strict_in, out, fpc>>

webhookVars == <<secret, transactions, request, response, polaris_tx, transaction>>

-----------------------------------------------------------------------------
(* Values *)

Null == [t |-> "null", s |-> "", n |-> 0, l |-> <<>>, o |-> <<>>]

Str(x) == [t |-> "str", s |-> x, n |-> 0, l |-> <<>>, o |-> <<>>]

Int_(x) == [t |-> "int", s |-> "", n |-> x, l |-> <<>>, o |-> <<>>]

Bool(b) == [t |-> "bool", s |-> "", n |-> IF b THEN 1 ELSE 0, l |-> <<>>, o |-> <<>>]

List(items) == [t |-> "list", s |-> "", n |-> 0, l |-> items, o |-> <<>>]

Obj(fields) == [t |-> "obj", s |-> "", n |-> 0, l |-> <<>>, o |-> fields]

\* dict.get(field): the value, or None when the key is absent
Get(entry, field) == IF field \in DOMAIN entry THEN entry[field] ELSE Null

\* dict[field] = value
Put(entry, field, value) ==
    [f \in DOMAIN entry \cup {field} |-> IF f = field THEN value ELSE entry[f]]

\* dict.setdefault(field, value): only an absent key is set
SetDefault(entry, field, value) ==
    IF field \in DOMAIN entry THEN entry ELSE Put(entry, field, value)

\* base.update(other)
Update(base, other) ==
    [f \in DOMAIN base \cup DOMAIN other |->
        IF f \in DOMAIN other THEN other[f] ELSE base[f]]

\* Python truth value: None, False, 0, "", [] and {} are false
Truthy(v) ==
    CASE v.t = "null" -> FALSE
      [] v.t = "bool" -> v.n = 1
      [] v.t = "int"  -> v.n # 0
      [] v.t = "str"  -> v.s # ""
      [] v.t = "list" -> v.l # <<>>
      [] v.t = "obj"  -> DOMAIN v.o # {}

\* isinstance(v, int): bool is a subclass of int
IsInt(v) == v.t \in {"int", "bool"}

Digit(d) == CASE d = 0 -> "0" [] d = 1 -> "1" [] d = 2 -> "2" [] d = 3 -> "3"
              [] d = 4 -> "4" [] d = 5 -> "5" [] d = 6 -> "6" [] d = 7 -> "7"
              [] d = 8 -> "8" [] d = 9 -> "9"

RECURSIVE NatToStr(_)
NatToStr(k) == IF k < 10 THEN Digit(k) ELSE NatToStr(k \div 10) \o Digit(k % 10)

\* str(v) as an f-string formats it
Format(v) ==
    CASE v.t = "str"  -> v.s
      [] v.t = "null" -> "None"
      [] v.t = "bool" -> IF v.n = 1 THEN "True" ELSE "False"
      [] v.t = "int"  -> IF v.n < 0 THEN "-" \o NatToStr(-v.n) ELSE NatToStr(v.n)

-----------------------------------------------------------------------------
(* Schema constants *)

_ALLOWED_STATUSES == {"live", "dead", "test", "private"}

_ALLOWED_ANCHOR_ASSET_TYPES ==
    {"fiat", "crypto", "nft", "stock", "bond", "commodity", "realestate", "other"}

_KNOWN_CURRENCY_FIELDS ==
    {"code", "issuer", "contract", "code_template", "status", "display_decimals",
     "name", "desc", "conditions", "image", "fixed_number", "max_number",
     "is_unlimited", "is_asset_anchored", "anchor_asset_type", "anchor_asset",
     "attestation_of_reserve", "redemption_instructions", "collateral_addresses",
     "collateral_address_messages", "collateral_address_signatures", "regulated",
     "approval_server", "approval_criteria"}

\* A faulty variant of the required fields: a field is required that the
\* defaulting pass does not provide
RequiredFieldsWithName ==
    {"is_asset_anchored", "anchor_asset_type", "code", "desc", "status", "name"}

\* Lines 50-56: the fields the anchor tests require
_ANCHOR_TESTS_REQUIRED_FIELDS ==
    {"is_asset_anchored", "anchor_asset_type", "code", "desc", "status"}

\* The account ids StrKey.is_valid_ed25519_public_key accepts (version byte G,
\* 32 bytes, CRC16 checksum), among the strings of the model
GKey1 == "GA5ZSEJYB37JRC5AVCIA5MOP4RHTM335X2KGX3IHOJAPP5RE34K4KZVN"

GKey2 == "GD7777777777777777777777777777777777777777777777777773DB"

\* The contract ids StrKey.is_valid_contract accepts, among the strings of the model
CKey1 == "CAAACAQDAQCQMBYIBEFAWDANBYHRAEISCMKBKFQXDAMRUGY4DUPB6N4O"

is_valid_ed25519_public_key(x) == x \in {GKey1, GKey2}

is_valid_contract(x) == x \in {CKey1}

-----------------------------------------------------------------------------
(* Errors and field validators.  A ValueError is the rule that was violated, *)
(* the field its message names, and for the unknown-field rule the names.   *)

NoErr == [rule |-> "", field |-> "", names |-> {}]

Err(rule, field) == [rule |-> rule, field |-> field, names |-> {}]

\* An optional int argument (max_length, min_value, max_value): None is {}
NoLimit == {}

Limit(k) == {k}

\* The first check of a list of checks that raised
FirstError(checks) ==
    LET raised == {k \in 1..Len(checks) : checks[k] # NoErr}
    IN  IF raised = {} THEN NoErr
        ELSE checks[CHOOSE k \in raised : \A m \in raised : k <= m]

_require_string(value, field, max_length) ==
    IF value.t # "str" \/ value.s = ""
    THEN Err("must be a non-empty string", field)
    ELSE IF \E m \in max_length : Len(value.s) > m
    THEN Err("must be <= max_length characters", field)
    ELSE NoErr

_optional_string(entry, field, max_length) ==
    IF field \notin DOMAIN entry \/ entry[field] = Null
    THEN NoErr
    ELSE _require_string(entry[field], field, max_length)

_optional_bool(entry, field) ==
    IF field \notin DOMAIN entry \/ entry[field] = Null
    THEN NoErr
    ELSE IF entry[field].t # "bool"
    THEN Err("must be a boolean", field)
    ELSE NoErr

_optional_int(entry, field, min_value, max_value) ==
    IF field \notin DOMAIN entry \/ entry[field] = Null
    THEN NoErr
    ELSE IF ~IsInt(entry[field])
    THEN Err("must be an integer", field)
    ELSE IF \E m \in min_value : entry[field].n < m
    THEN Err("must be >= min_value", field)
    ELSE IF \E m \in max_value : entry[field].n > m
    THEN Err("must be <= max_value", field)
    ELSE NoErr

_optional_list_of_strings(entry, field) ==
    IF field \notin DOMAIN entry \/ entry[field] = Null
    THEN NoErr
    ELSE IF entry[field].t # "list"
            \/ \E k \in 1..Len(entry[field].l) :
                  entry[field].l[k].t # "str" \/ entry[field].l[k].s = ""
    THEN Err("must be a list of non-empty strings", field)
    ELSE NoErr

-----------------------------------------------------------------------------
(* validate_currency_entry *)

\* What a call returns (ok, with the entry) or raises (the ValueError)
Returned(entry) == [ok |-> TRUE, entry |-> entry, err |-> NoErr]

Raised(err) == [ok |-> FALSE, entry |-> <<>>, err |-> err]

\* A faulty variant of the unknown-field check: made whatever the mode
UnknownFieldsCheckAnyMode(entry, strict) ==
    IF DOMAIN entry \ _KNOWN_CURRENCY_FIELDS # {}
    THEN [rule |-> "unknown field(s)", field |-> "",
          names |-> DOMAIN entry \ _KNOWN_CURRENCY_FIELDS]
    ELSE NoErr

\* if strict: unknown = sorted(set(entry.keys()) - _KNOWN_CURRENCY_FIELDS)
UnknownFieldsCheck(entry, strict) ==
    IF strict /\ DOMAIN entry \ _KNOWN_CURRENCY_FIELDS # {}
    THEN [rule |-> "unknown field(s)", field |-> "",
          names |-> DOMAIN entry \ _KNOWN_CURRENCY_FIELDS]
    ELSE NoErr

\* A faulty variant of the issuer/contract rule: only "neither" is rejected
ExactlyOneCheckNeitherOnly(entry) ==
    IF ~Truthy(Get(entry, "issuer")) /\ ~Truthy(Get(entry, "contract"))
    THEN Err("one of 'issuer' (Stellar Asset) or 'contract' (SEP-41 token) must be set", "")
    ELSE NoErr

\* if issuer and contract: ... ; if not issuer and not contract: ...
ExactlyOneCheck(entry) ==
    IF Truthy(Get(entry, "issuer")) /\ Truthy(Get(entry, "contract"))
    THEN Err("only one of 'issuer' or 'contract' can be set", "")
    ELSE IF ~Truthy(Get(entry, "issuer")) /\ ~Truthy(Get(entry, "contract"))
    THEN Err("one of 'issuer' (Stellar Asset) or 'contract' (SEP-41 token) must be set", "")
    ELSE NoErr

IssuerCheck(entry) ==
    IF Get(entry, "issuer") = Null THEN NoErr
    ELSE IF _require_string(Get(entry, "issuer"), "issuer", NoLimit) # NoErr
    THEN _require_string(Get(entry, "issuer"), "issuer", NoLimit)
    ELSE IF ~is_valid_ed25519_public_key(Get(entry, "issuer").s)
    THEN Err("must be a valid Stellar public key (G...)", "issuer")
    ELSE NoErr

ContractCheck(entry) ==
    IF Get(entry, "contract") = Null THEN NoErr
    ELSE IF _require_string(Get(entry, "contract"), "contract", NoLimit) # NoErr
    THEN _require_string(Get(entry, "contract"), "contract", NoLimit)
    ELSE IF ~is_valid_contract(Get(entry, "contract").s)
    THEN Err("must be a valid Stellar contract ID (C...)", "contract")
    ELSE NoErr

\* status and anchor_asset_type: a non-empty string of the enumeration, or None
EnumCheck(entry, field, allowed) ==
    IF Get(entry, field) = Null THEN NoErr
    ELSE IF _require_string(Get(entry, field), field, NoLimit) # NoErr
    THEN _require_string(Get(entry, field), field, NoLimit)
    ELSE IF Get(entry, field).s \notin allowed
    THEN Err("must be one of the allowed values", field)
    ELSE NoErr

\* The checks of validate_currency_entry on a dict, in source order
EntryChecks(entry, strict) ==
    << UnknownFieldsCheck(entry, strict),
       _require_string(Get(entry, "code"), "code", Limit(12)),
       ExactlyOneCheck(entry),
       IssuerCheck(entry),
       ContractCheck(entry),
       _optional_string(entry, "code_template", Limit(12)),
       EnumCheck(entry, "status", _ALLOWED_STATUSES),
       _optional_int(entry, "display_decimals", Limit(0), Limit(7)),
       _optional_string(entry, "name", Limit(20)),
       _optional_string(entry, "desc", NoLimit),
       _optional_string(entry, "conditions", NoLimit),
       _optional_string(entry, "image", NoLimit),
       _optional_int(entry, "fixed_number", Limit(0), NoLimit),
       _optional_int(entry, "max_number", Limit(0), NoLimit),
       _optional_bool(entry, "is_unlimited"),
       _optional_bool(entry, "is_asset_anchored"),
       EnumCheck(entry, "anchor_asset_type", _ALLOWED_ANCHOR_ASSET_TYPES),
       _optional_string(entry, "anchor_asset", NoLimit),
       _optional_string(entry, "attestation_of_reserve", NoLimit),
       _optional_string(entry, "redemption_instructions", NoLimit),
       _optional_list_of_strings(entry, "collateral_addresses"),
       _optional_list_of_strings(entry, "collateral_address_messages"),
       _optional_list_of_strings(entry, "collateral_address_signatures"),
       _optional_bool(entry, "regulated"),
       _optional_string(entry, "approval_server", NoLimit),
       _optional_string(entry, "approval_criteria", NoLimit) >>

\* A faulty variant of validate_currency_entry: the returned dict holds the
\* known fields only
ValidateDropsUnknown(raw_entry, strict) ==
    IF raw_entry.t # "obj"
    THEN Raised(Err("currency entry must be an object", ""))
    ELSE LET err == FirstError(EntryChecks(raw_entry.o, strict))
         IN  IF err # NoErr
             THEN Raised(err)
             ELSE Returned([f \in DOMAIN raw_entry.o \cap _KNOWN_CURRENCY_FIELDS |->
                               raw_entry.o[f]])

\* raw_entry is any JSON value; only an object is a Mapping
validate_currency_entry(raw_entry, strict) ==
    IF raw_entry.t # "obj"
    THEN Raised(Err("currency entry must be an object", ""))
    ELSE LET err == FirstError(EntryChecks(raw_entry.o, strict))
         IN  IF err # NoErr
             THEN Raised(err)
             ELSE Returned(Put(raw_entry.o, "code", Get(raw_entry.o, "code")))

-----------------------------------------------------------------------------
(* _apply_required_field_defaults *)

\* code = entry.get("code") or "TOKEN"
DefaultCode(entry) ==
    IF Truthy(Get(entry, "code")) THEN Get(entry, "code") ELSE Str("TOKEN")

\* A faulty variant of the defaults: the two anchor_asset_type lines swapped
WithDefaultsOtherFirst(entry) ==
    SetDefault(
      SetDefault(
        SetDefault(
          SetDefault(
            SetDefault(
              SetDefault(entry, "status", Str("live")),
              "desc", Str(Format(DefaultCode(entry)) \o " token")),
            "is_asset_anchored", Bool(TRUE)),
          "anchor_asset_type", Str("other")),
        "anchor_asset", DefaultCode(entry)),
      "anchor_asset_type", Str("fiat"))

\* The six setdefault calls, in source order
WithDefaults(entry) ==
    SetDefault(
      SetDefault(
        SetDefault(
          SetDefault(
            SetDefault(
              SetDefault(entry, "status", Str("live")),
              "desc", Str(Format(DefaultCode(entry)) \o " token")),
            "is_asset_anchored", Bool(TRUE)),
          "anchor_asset_type", Str("fiat")),
        "anchor_asset", DefaultCode(entry)),
      "anchor_asset_type", Str("other"))

_apply_required_field_defaults(entry) ==
    LET defaulted == WithDefaults(entry)
    IN  IF \E field \in _ANCHOR_TESTS_REQUIRED_FIELDS : field \notin DOMAIN defaulted
        THEN Raised([rule |-> "missing required field after applying defaults",
                     field |-> "",
                     names |-> _ANCHOR_TESTS_REQUIRED_FIELDS \ DOMAIN defaulted])
        ELSE Returned(defaulted)

-----------------------------------------------------------------------------
(* Keys, the builder's dict, _dedupe_currencies *)

_currency_key(entry) ==
    <<Get(entry, "code"), Get(entry, "issuer"), Get(entry, "contract")>>

\* A Python dict keyed by tuples: a sequence of items [k, v] in insertion order
DictHas(d, key) == \E p \in 1..Len(d) : d[p].k = key

\* A faulty variant of d.get(key, {}): the stored entry is never found
DictGetNothing(d, key) == <<>>

\* d.get(key, {})
DictGet(d, key) ==
    IF DictHas(d, key) THEN d[CHOOSE p \in 1..Len(d) : d[p].k = key].v ELSE <<>>

\* A faulty variant of d[key] = value: a key already in the dict keeps its value
DictSetKeepFirst(d, key, value) ==
    IF \E p \in 1..Len(d) : d[p].k = key THEN d
    ELSE Append(d, [k |-> key, v |-> value])

\* d[key] = value: an existing key keeps its place, a new key goes last
DictSet(d, key, value) ==
    IF DictHas(d, key)
    THEN [p \in 1..Len(d) |-> IF d[p].k = key THEN [k |-> key, v |-> value] ELSE d[p]]
    ELSE Append(d, [k |-> key, v |-> value])

\* d.values()
DictValues(d) == [p \in 1..Len(d) |-> d[p].v]

\* Python's order on str (by code point), on the strings that a key of the
\* model can hold, listed in ascending order
StrOrder == <<"", CKey1, "EURC", GKey1, GKey2, "USDC">>

StrRank(x) == CHOOSE p \in 1..Len(StrOrder) : StrOrder[p] = x

StrLess(a, b) == StrRank(a) < StrRank(b)

\* value or ""
OrEmpty(v) == IF Truthy(v) THEN v ELSE Str("")

\* The sort key of line 201
SortKey(c) ==
    <<OrEmpty(Get(c, "code")).s, OrEmpty(Get(c, "issuer")).s,
      OrEmpty(Get(c, "contract")).s>>

\* Python's order on tuples of str
TupleLess(a, b) ==
    \/ StrLess(a[1], b[1])
    \/ a[1] = b[1] /\ StrLess(a[2], b[2])
    \/ a[1] = b[1] /\ a[2] = b[2] /\ StrLess(a[3], b[3])

\* The loop of _dedupe_currencies: the first entry of each key, in order
RECURSIVE Unique(_, _)
Unique(cs, seen) ==
    IF cs = <<>> THEN <<>>
    ELSE IF _currency_key(Head(cs)) \in seen THEN Unique(Tail(cs), seen)
    ELSE <<Head(cs)>> \o Unique(Tail(cs), seen \cup {_currency_key(Head(cs))})

\* list.sort(key=...) is stable: an item goes after the items not greater than it
RECURSIVE InsertSorted(_, _)
InsertSorted(sorted, c) ==
    IF sorted = <<>> THEN <<c>>
    ELSE IF TupleLess(SortKey(c), SortKey(Head(sorted)))
    THEN <<c>> \o sorted
    ELSE <<Head(sorted)>> \o InsertSorted(Tail(sorted), c)

RECURSIVE SortByKey(_)
SortByKey(cs) ==
    IF cs = <<>> THEN <<>>
    ELSE InsertSorted(SortByKey(SubSeq(cs, 1, Len(cs) - 1)), cs[Len(cs)])

\* A faulty variant of _dedupe_currencies: the final sort is left out
DedupeUnsorted(cs) == Unique(cs, {})

_dedupe_currencies(cs) == SortByKey(Unique(cs, {}))

-----------------------------------------------------------------------------
(* Inputs *)

\* The longest registry and the longest SEP1_CURRENCIES array of the model
MaxSeeds == 2

MaxOverrides == 2

SeqsUpTo(S, n) == UNION {[1..k -> S] : k \in 0..n}

\* An Asset row as build_sep1_currencies reads it
Asset(code, issuer, significant_decimals) ==
    [code |-> code, issuer |-> issuer, significant_decimals |-> significant_decimals]

AssetRows ==
    { Asset(Str("USDC"), Str(GKey1), Int_(7)),
      Asset(Str("EURC"), Str(GKey2), Int_(2)),
      Asset(Str("USDC"), Str(GKey1), Int_(2)),
      Asset(Str("USDC"), Null, Int_(2)),
      Asset(Str("EURC"), Str(GKey2), Int_(9)) }

\* The elements a SEP1_CURRENCIES array of the model is made of
OverrideElements ==
    { Obj([code |-> Str("USDC"), issuer |-> Str(GKey1), status |-> Str("test")]),
      Obj([code |-> Str("USDC"), issuer |-> Str(GKey1), contract |-> Null,
           status |-> Str("dead"), name |-> Str("USD Coin")]),
      Obj([code |-> Str("USDC"), issuer |-> Str(GKey1), status |-> Null]),
      Obj([code |-> Str("USDC"), contract |-> Str(CKey1), desc |-> Null]),
      Obj([code |-> Str("EURC"), issuer |-> Str(GKey1),
           anchor_asset_type |-> Str("crypto"), is_asset_anchored |-> Bool(FALSE)]),
      Obj([code |-> Str("USDC"), issuer |-> Str(GKey1), contract |-> Str(CKey1)]),
      Obj([code |-> Str("USDC"), issuer |-> Str(GKey1), foo |-> Str("x")]),
      Int_(5) }

\* The environment variable: unset, "", a text that is not JSON, or the JSON
\* text of a value
Payload(kind, value) == [kind |-> kind, value |-> value]

Payloads ==
    { Payload("unset", Null), Payload("empty", Null), Payload("not-json", Null),
      Payload("json", Null), Payload("json", Str("USDC")),
      Payload("json", Obj([code |-> Str("USDC"), issuer |-> Str(GKey1)])) }
    \cup { Payload("json", List(a)) : a \in SeqsUpTo(OverrideElements, MaxOverrides) }

\* An optional field of an input entry: absent, or one of the values
OptField(name, values) ==
    {<<>>} \cup {[f \in {name} |-> v] : v \in values}

\* The arguments of the single calls
EntryInputs ==
    { Obj(Update(Update(Update(Update(c, g), k), st), x)) :
        c \in OptField("code", {Null, Str(""), Str("USDC"), Str("ABCDEFGHIJKLM"), Int_(5)}),
        g \in OptField("issuer", {Null, Str(""), Str(GKey1), Str("GBAD"), Bool(FALSE)}),
        k \in OptField("contract", {Null, Str(""), Str(CKey1), Str("CBAD")}),
        st \in OptField("status", {Null, Str("test"), Str("bogus")}),
        x \in OptField("foo", {Str("x")})
             \cup OptField("desc", {Null, Str("custom")})
             \cup OptField("anchor_asset_type", {Str("crypto")})
             \cup OptField("anchor_asset", {Str("EUR")})
             \cup OptField("is_asset_anchored", {Bool(FALSE), Str("no")})
             \cup OptField("display_decimals",
                           {Null, Int_(0), Int_(7), Int_(9), Int_(0 - 1), Str("2"),
                            List(<<Str("2")>>), Bool(TRUE)})
             \cup OptField("fixed_number",
                           {Int_(0), Int_(0 - 1), Int_(1000000), Str("10"), Bool(FALSE)})
             \cup OptField("max_number", {Int_(5), Int_(0 - 1), List(<<>>)}) }
    \cup {Null, Int_(5), Str("USDC"), List(<<Str("USDC")>>)}

-----------------------------------------------------------------------------
(* build_sep1_currencies, one loop iteration per step *)

\* No exception; a ValueError leaving validate_currency_entry or the defaulting
\* pass; the loader's three RuntimeErrors (at: the index its message names)
NoExc == [type |-> "", msg |-> "", at |-> {}, cause |-> NoErr]

ValueError(err) == [type |-> "ValueError", msg |-> "", at |-> {}, cause |-> err]

RuntimeError(msg, at, err) ==
    [type |-> "RuntimeError", msg |-> msg, at |-> at, cause |-> err]

NotRead == Payload("unread", Null)

NoCall == [ok |-> FALSE, entry |-> <<>>, err |-> NoErr]

CallIdle ==
    /\ entry_in = Null
    /\ strict_in = FALSE
    /\ out = NoCall
    /\ fpc = "idle"

\* No validate_currency_entry call yet
NoValidation == [by |-> "none", strict |-> FALSE]

\* The view has handled no request
NoRequest == [method |-> "none"]

NoResponse == [status |-> 0, detail |-> "", ok |-> FALSE]

\* No row is loaded
NoInstance == [k |-> 0]

WebhookIdle ==
    /\ secret = Null
    /\ transactions = <<>>
    /\ request = NoRequest
    /\ response = NoResponse
    /\ polaris_tx = NoInstance
    /\ transaction = NoInstance

BuildIdle ==
    /\ registry = <<>>
    /\ raw = NotRead
    /\ data = <<>>
    /\ currencies = <<>>
    /\ idx = 0
    /\ currencies_by_key = <<>>
    /\ i = 0
    /\ j = 0
    /\ result = <<>>
    /\ exc = NoExc
    /\ call = NoValidation

Init ==
    /\ registry \in SeqsUpTo(AssetRows, MaxSeeds)
    /\ raw = NotRead
    /\ data = <<>>
    /\ currencies = <<>>
    /\ idx = 0
    /\ currencies_by_key = <<>>
    /\ i = 0
    /\ j = 0
    /\ pc = "seeds"
    /\ result = <<>>
    /\ exc = NoExc
    /\ call = NoValidation
    /\ CallIdle
    /\ WebhookIdle

\* Lines 261-265: the dict built from an Asset row
SeedCurrency(asset) ==
    [code |-> asset.code, issuer |-> asset.issuer,
     display_decimals |-> asset.significant_decimals]

\* Line 268: the seed loop passes strict=False
SeedStrict == FALSE

\* A faulty variant of the seed loop: the defaulted seed is stored unvalidated
SeedOutcomeUnvalidated(asset) == _apply_required_field_defaults(SeedCurrency(asset))

\* Lines 266-269: default, then validate with strict=False
SeedOutcome(asset) ==
    LET defaulted == _apply_required_field_defaults(SeedCurrency(asset))
    IN  IF ~defaulted.ok THEN defaulted
        ELSE validate_currency_entry(Obj(defaulted.entry), SeedStrict)

\* Lines 260-269: one iteration of the loop over the registry
SeedStep ==
    /\ pc = "seeds"
    /\ i < Len(registry)
    /\ LET currency == _apply_required_field_defaults(SeedCurrency(registry[i + 1]))
           validated == SeedOutcome(registry[i + 1])
       IN  /\ call' = IF currency.ok THEN [by |-> "seed", strict |-> SeedStrict]
                                     ELSE call
           /\ IF validated.ok
              THEN /\ currencies_by_key' =
                          DictSet(currencies_by_key, _currency_key(currency.entry),
                                  validated.entry)
                   /\ i' = i + 1
                   /\ UNCHANGED <<pc, exc>>
              ELSE /\ pc' = "raised"
                   /\ exc' = ValueError(validated.err)
                   /\ UNCHANGED <<currencies_by_key, i>>
    /\ UNCHANGED <<registry, raw, data, currencies, idx, j, result>>
    /\ UNCHANGED callVars
    /\ UNCHANGED webhookVars

\* A faulty variant of the loader's parse: the isinstance(data, list) test is
\* left out, and a value that is no list is looped over as if it had no items
LoaderParseAnyValue(payload) ==
    IF payload.kind \in {"unset", "empty"}
    THEN [to |-> "merge", exc |-> NoExc, data |-> <<>>]
    ELSE IF payload.kind = "not-json"
    THEN [to |-> "raised", exc |-> RuntimeError("must be valid JSON", {}, NoErr),
          data |-> <<>>]
    ELSE [to |-> "load", exc |-> NoExc, data |-> payload.value.l]

\* A faulty variant of the loader's parse: `if raw is None` instead of
\* `if not raw`, so that the empty string goes to json.loads
LoaderParseEmptyIsText(payload) ==
    IF payload.kind = "unset"
    THEN [to |-> "merge", exc |-> NoExc, data |-> <<>>]
    ELSE IF payload.kind \in {"empty", "not-json"}
    THEN [to |-> "raised", exc |-> RuntimeError("must be valid JSON", {}, NoErr),
          data |-> <<>>]
    ELSE IF payload.value.t # "list"
    THEN [to |-> "raised",
          exc |-> RuntimeError("must be a JSON list of objects", {}, NoErr),
          data |-> <<>>]
    ELSE [to |-> "load", exc |-> NoExc, data |-> payload.value.l]

\* Lines 210-220: what the loader does with the variable's value before its
\* loop: return [] at once, raise, or go on with the parsed list
LoaderParse(payload) ==
    IF payload.kind \in {"unset", "empty"}
    THEN [to |-> "merge", exc |-> NoExc, data |-> <<>>]
    ELSE IF payload.kind = "not-json"
    THEN [to |-> "raised", exc |-> RuntimeError("must be valid JSON", {}, NoErr),
          data |-> <<>>]
    ELSE IF payload.value.t # "list"
    THEN [to |-> "raised",
          exc |-> RuntimeError("must be a JSON list of objects", {}, NoErr),
          data |-> <<>>]
    ELSE [to |-> "load", exc |-> NoExc, data |-> payload.value.l]

\* Lines 210-222: the loader reads the variable, parses it and checks for a list
ReadEnv ==
    /\ pc = "seeds"
    /\ i = Len(registry)
    /\ \E payload \in Payloads :
          LET parsed == LoaderParse(payload)
          IN  /\ raw' = payload
              /\ pc' = parsed.to
              /\ exc' = parsed.exc
              /\ data' = parsed.data
    /\ currencies' = <<>>
    /\ idx' = 0
    /\ UNCHANGED <<registry, currencies_by_key, i, j, result, call>>
    /\ UNCHANGED callVars
    /\ UNCHANGED webhookVars

\* A faulty variant of the loader's validation: lenient instead of strict
LoadOutcomeLenient(element) == validate_currency_entry(element, FALSE)

\* Lines 225, 107: validate_currency_entry(entry), and strict is True by default
LoadStrict == TRUE

\* Line 225: validate_currency_entry(entry), strict by default
LoadOutcome(element) == validate_currency_entry(element, LoadStrict)

\* Lines 223-227: one iteration of the loader's loop
LoadStep ==
    /\ pc = "load"
    /\ idx < Len(data)
    /\ LET validated == LoadOutcome(data[idx + 1])
       IN  /\ call' = [by |-> "loader", strict |-> LoadStrict]
           /\ IF validated.ok
              THEN /\ currencies' = Append(currencies, validated.entry)
                   /\ idx' = idx + 1
                   /\ UNCHANGED <<pc, exc>>
              ELSE /\ pc' = "raised"
                   /\ exc' = RuntimeError("Invalid currency entry at", {idx}, validated.err)
                   /\ UNCHANGED <<currencies, idx>>
    /\ UNCHANGED <<registry, raw, data, currencies_by_key, i, j, result>>
    /\ UNCHANGED callVars
    /\ UNCHANGED webhookVars

\* Line 229: the loader returns its list
LoadReturn ==
    /\ pc = "load"
    /\ idx = Len(data)
    /\ pc' = "merge"
    /\ UNCHANGED <<registry, raw, data, currencies, idx, currencies_by_key, i, j,
                   result, exc, call>>
    /\ UNCHANGED callVars
    /\ UNCHANGED webhookVars

\* A faulty variant of the merge: the base's values win over the override's
MergedBaseWins(d, env_currency) ==
    Update(env_currency, DictGet(d, _currency_key(env_currency)))

\* Lines 273-274: merged = dict(currencies_by_key.get(key, {})); merged.update(env)
Merged(d, env_currency) ==
    Update(DictGet(d, _currency_key(env_currency)), env_currency)

\* A faulty variant of the merge loop's validation: strict=False is passed
MergeStrictLenient == FALSE

\* Lines 276, 107: validate_currency_entry(merged), and strict is True by default
MergeStrict == TRUE

\* Lines 275-276: default, then validate_currency_entry(merged), strict by default
MergeOutcome(d, env_currency) ==
    LET defaulted == _apply_required_field_defaults(Merged(d, env_currency))
    IN  IF ~defaulted.ok THEN defaulted
        ELSE validate_currency_entry(Obj(defaulted.entry), MergeStrict)

\* Lines 271-276: one iteration of the loop over the loaded entries
MergeStep ==
    /\ pc = "merge"
    /\ j < Len(currencies)
    /\ LET merged == _apply_required_field_defaults(
                         Merged(currencies_by_key, currencies[j + 1]))
           validated == MergeOutcome(currencies_by_key, currencies[j + 1])
       IN  /\ call' = IF merged.ok THEN [by |-> "merge", strict |-> MergeStrict]
                                   ELSE call
           /\ IF validated.ok
              THEN /\ currencies_by_key' =
                          DictSet(currencies_by_key, _currency_key(currencies[j + 1]),
                                  validated.entry)
                   /\ j' = j + 1
                   /\ UNCHANGED <<pc, exc>>
              ELSE /\ pc' = "raised"
                   /\ exc' = ValueError(validated.err)
                   /\ UNCHANGED <<currencies_by_key, j>>
    /\ UNCHANGED <<registry, raw, data, currencies, idx, i, result>>
    /\ UNCHANGED callVars
    /\ UNCHANGED webhookVars

\* Line 278: return _dedupe_currencies(currencies_by_key.values())
Assemble ==
    /\ pc = "merge"
    /\ j = Len(currencies)
    /\ result' = _dedupe_currencies(DictValues(currencies_by_key))
    /\ pc' = "done"
    /\ UNCHANGED <<registry, raw, data, currencies, idx, currencies_by_key, i, j,
                   exc, call>>
    /\ UNCHANGED callVars
    /\ UNCHANGED webhookVars

Next == SeedStep \/ ReadEnv \/ LoadStep \/ LoadReturn \/ MergeStep \/ Assemble

Spec == Init /\ [][Next]_vars

-----------------------------------------------------------------------------
(* Single calls of validate_currency_entry and _apply_required_field_defaults *)

InitCalls ==
    /\ BuildIdle
    /\ pc = "idle"
    /\ entry_in \in EntryInputs
    /\ strict_in \in BOOLEAN
    /\ out = NoCall
    /\ fpc = "start"
    /\ WebhookIdle

ValidateCall ==
    /\ fpc = "start"
    /\ out' = validate_currency_entry(entry_in, strict_in)
    /\ fpc' = "validated"
    /\ UNCHANGED <<entry_in, strict_in>>
    /\ UNCHANGED buildVars
    /\ UNCHANGED webhookVars

DefaultsCall ==
    /\ fpc = "start"
    /\ entry_in.t = "obj"
    /\ out' = _apply_required_field_defaults(entry_in.o)
    /\ entry_in' = Obj(WithDefaults(entry_in.o))
    /\ fpc' = "defaulted"
    /\ UNCHANGED strict_in
    /\ UNCHANGED buildVars
    /\ UNCHANGED webhookVars

NextCalls == ValidateCall \/ DefaultsCall

SpecCalls == InitCalls /\ [][NextCalls]_vars

-----------------------------------------------------------------------------
(* Properties of the returned directory *)

\* The composite key of the data model: (code, issuer-or-null, contract-or-null)
CompositeKey(c) == <<Get(c, "code"), Get(c, "issuer"), Get(c, "contract")>>

\* The key of the directory's order: (code, issuer-or-empty, contract-or-empty)
OrderKey(c) ==
    <<Get(c, "code").s,
      IF Get(c, "issuer") = Null THEN "" ELSE Get(c, "issuer").s,
      IF Get(c, "contract") = Null THEN "" ELSE Get(c, "contract").s>>

\* C1: a returned directory holds no two entries with the same composite key
\* and is strictly ascending by (code, issuer-or-empty, contract-or-empty).
C1_DirectoryUniqueAndAscending ==
    pc = "done" =>
        /\ \A a, b \in 1..Len(result) :
              a # b => CompositeKey(result[a]) # CompositeKey(result[b])
        /\ \A a \in 1..(Len(result) - 1) :
              TupleLess(OrderKey(result[a]), OrderKey(result[a + 1]))

\* C1's case: a directory of several entries whose sorted order is not the
\* order in which the keys entered the dict
C1_Witness ==
    /\ pc = "done"
    /\ Len(result) >= 2
    /\ result # DictValues(currencies_by_key)

\* C2: every entry of a returned directory has each of the five required
\* fields present with a non-null value.
C2_RequiredFieldsProvided ==
    pc = "done" =>
        \A a \in 1..Len(result) :
            \A f \in _ANCHOR_TESTS_REQUIRED_FIELDS :
                f \in DOMAIN result[a] /\ result[a][f] # Null

\* C2's failing input reached: an override passed status as null on top of a
\* defaulted seed, and the directory was returned
C2_NullStatusReturned ==
    /\ pc = "done"
    /\ \E a \in 1..Len(result) :
          "status" \in DOMAIN result[a] /\ result[a]["status"] = Null

-----------------------------------------------------------------------------
(* Properties of validate_currency_entry and of the defaulting pass *)

\* "Set", as the code tests it: present with a value that is true in Python
IsSet(entry, field) == Truthy(Get(entry, field))

OnlyOneRule == "only one of 'issuer' or 'contract' can be set"

OneOfRule == "one of 'issuer' (Stellar Asset) or 'contract' (SEP-41 token) must be set"

\* The checks validate_currency_entry makes before the issuer/contract rule pass
EarlierChecksPass(entry, strict) ==
    /\ strict => DOMAIN entry \subseteq _KNOWN_CURRENCY_FIELDS
    /\ Get(entry, "code").t = "str"
    /\ Get(entry, "code").s # ""
    /\ Len(Get(entry, "code").s) <= 12

\* The value of the one field that is set passes its format check
FormatOk(entry) ==
    /\ IsSet(entry, "issuer") =>
          Get(entry, "issuer").t = "str" /\ Get(entry, "issuer").s \in {GKey1, GKey2}
    /\ IsSet(entry, "contract") =>
          Get(entry, "contract").t = "str" /\ Get(entry, "contract").s \in {CKey1}

\* C3, as stated: in either mode, an entry with both issuer and contract set
\* fails with the "only one" rule, one with neither set fails with the "one of"
\* rule, and one with exactly one set passes only if that value has its format.
C3_Original ==
    (fpc = "validated" /\ entry_in.t = "obj") =>
        /\ (IsSet(entry_in.o, "issuer") /\ IsSet(entry_in.o, "contract")) =>
              ~out.ok /\ out.err.rule = OnlyOneRule
        /\ (~IsSet(entry_in.o, "issuer") /\ ~IsSet(entry_in.o, "contract")) =>
              ~out.ok /\ out.err.rule = OneOfRule
        /\ out.ok => FormatOk(entry_in.o)

\* C3, amended: an entry with both or neither set always fails; the failure is
\* the "only one" / "one of" rule when the earlier checks (unknown fields in
\* strict mode, code) pass; an accepted entry has exactly one of them set, with
\* a value of the right format.
C3_ExactlyOneOfIssuerContract ==
    (fpc = "validated" /\ entry_in.t = "obj") =>
        /\ (IsSet(entry_in.o, "issuer") <=> IsSet(entry_in.o, "contract")) => ~out.ok
        /\ (/\ EarlierChecksPass(entry_in.o, strict_in)
            /\ IsSet(entry_in.o, "issuer")
            /\ IsSet(entry_in.o, "contract")) =>
              out.err.rule = OnlyOneRule
        /\ (/\ EarlierChecksPass(entry_in.o, strict_in)
            /\ ~IsSet(entry_in.o, "issuer")
            /\ ~IsSet(entry_in.o, "contract")) =>
              out.err.rule = OneOfRule
        /\ out.ok => FormatOk(entry_in.o)

\* C3's case: an entry with a valid code and with both issuer and contract set
\* was validated and the "only one" rule was raised
C3_Witness ==
    /\ fpc = "validated"
    /\ entry_in.t = "obj"
    /\ IsSet(entry_in.o, "issuer")
    /\ IsSet(entry_in.o, "contract")
    /\ ~out.ok
    /\ out.err.rule = OnlyOneRule

\* C5: for an entry that has a code, the defaulting pass keeps every field of
\* the input at its value, sets each absent one of status, desc,
\* is_asset_anchored, anchor_asset_type, anchor_asset to its default ("live",
\* "<code> token", true, "fiat", the code), and ends with the five required
\* fields present; what it returns is its argument, which it has changed in
\* place.
C5_DefaultsFillOnlyAbsent ==
    [][ (fpc' = "defaulted" /\ IsSet(entry_in.o, "code")) =>
          /\ out'.ok
          /\ entry_in' = Obj(out'.entry)
          /\ DOMAIN out'.entry =
                DOMAIN entry_in.o \cup
                    {"status", "desc", "is_asset_anchored", "anchor_asset_type",
                     "anchor_asset"}
          /\ \A f \in DOMAIN entry_in.o : out'.entry[f] = entry_in.o[f]
          /\ "status" \notin DOMAIN entry_in.o => out'.entry["status"] = Str("live")
          /\ "desc" \notin DOMAIN entry_in.o =>
                out'.entry["desc"] = Str(Format(entry_in.o["code"]) \o " token")
          /\ "is_asset_anchored" \notin DOMAIN entry_in.o =>
                out'.entry["is_asset_anchored"] = Bool(TRUE)
          /\ "anchor_asset_type" \notin DOMAIN entry_in.o =>
                out'.entry["anchor_asset_type"] = Str("fiat")
          /\ "anchor_asset" \notin DOMAIN entry_in.o =>
                out'.entry["anchor_asset"] = entry_in.o["code"]
          /\ _ANCHOR_TESTS_REQUIRED_FIELDS \subseteq DOMAIN out'.entry
      ]_vars

\* C5's case: the pass ran on an entry with a code that gave a status (null:
\* the default is "live") and a desc of its own and left anchor_asset_type
\* to the default; the argument now holds what was returned
C5_Witness ==
    /\ fpc = "defaulted"
    /\ out.ok
    /\ entry_in = Obj(out.entry)
    /\ IsSet(out.entry, "code")
    /\ out.entry["status"] = Null
    /\ out.entry["desc"] = Str("custom")
    /\ out.entry["anchor_asset_type"] = Str("fiat")

\* The entry without the fields that are not in the known-field set
KnownPart(entry) == [f \in DOMAIN entry \cap _KNOWN_CURRENCY_FIELDS |-> entry[f]]

\* C9: in strict mode an entry with a field outside the known-field set fails
\* with the unknown-field error, whatever else is wrong with it; in lenient
\* mode the outcome is the one its known fields alone would have, and an
\* accepted entry is returned with all its fields.
C9_StrictRejectsUnknownFirst ==
    (fpc = "validated" /\ entry_in.t = "obj") =>
        /\ (strict_in /\ ~(DOMAIN entry_in.o \subseteq _KNOWN_CURRENCY_FIELDS)) =>
              /\ ~out.ok
              /\ out.err.rule = "unknown field(s)"
              /\ out.err.names = DOMAIN entry_in.o \ _KNOWN_CURRENCY_FIELDS
        /\ ~strict_in =>
              /\ out.ok = validate_currency_entry(Obj(KnownPart(entry_in.o)), TRUE).ok
              /\ out.err = validate_currency_entry(Obj(KnownPart(entry_in.o)), TRUE).err
              /\ out.ok => out.entry = entry_in.o

\* C9's case: a strict validation of an entry that has an unknown field and
\* also breaks the code rule and the issuer/contract rule
C9_Witness ==
    /\ fpc = "validated"
    /\ entry_in.t = "obj"
    /\ strict_in
    /\ "foo" \in DOMAIN entry_in.o
    /\ ~IsSet(entry_in.o, "code")
    /\ IsSet(entry_in.o, "issuer")
    /\ IsSet(entry_in.o, "contract")
    /\ out.err.rule = "unknown field(s)"

-----------------------------------------------------------------------------
(* Properties of the merge and of the loader *)

\* The defaulted seed of an Asset row
DefaultedSeed(asset) == _apply_required_field_defaults(SeedCurrency(asset)).entry

\* C4: when an override has the composite key of an entry already in the map,
\* the merged entry has the override's value for every field the override
\* specifies and the stored entry's value for every other field; and the stored
\* entry is the defaulted seed itself when this is the first override for it.
C4_OverrideReplacesOnlyItsFields ==
    [][ (/\ pc = "merge"
         /\ j' = j + 1
         /\ DictHas(currencies_by_key, CompositeKey(currencies[j + 1])))
        =>
        /\ DOMAIN DictGet(currencies_by_key', CompositeKey(currencies[j + 1])) =
              DOMAIN DictGet(currencies_by_key, CompositeKey(currencies[j + 1]))
                  \cup DOMAIN currencies[j + 1]
        /\ \A f \in DOMAIN currencies[j + 1] :
              DictGet(currencies_by_key', CompositeKey(currencies[j + 1]))[f] =
                  currencies[j + 1][f]
        /\ \A f \in DOMAIN DictGet(currencies_by_key, CompositeKey(currencies[j + 1]))
                       \ DOMAIN currencies[j + 1] :
              DictGet(currencies_by_key', CompositeKey(currencies[j + 1]))[f] =
                  DictGet(currencies_by_key, CompositeKey(currencies[j + 1]))[f]
        /\ (\A m \in 1..j :
                CompositeKey(currencies[m]) # CompositeKey(currencies[j + 1]))
              => \E r \in 1..Len(registry) :
                    DictGet(currencies_by_key, CompositeKey(currencies[j + 1])) =
                        DefaultedSeed(registry[r])
      ]_vars

\* C4's case: the first override, with a seed's key, was merged: its status is
\* in the map entry, beside the seed's display_decimals and the default desc
C4_Witness ==
    /\ pc = "merge"
    /\ j = 1
    /\ Len(registry) >= 1
    /\ CompositeKey(currencies[1]) = CompositeKey(DefaultedSeed(registry[1]))
    /\ "status" \in DOMAIN currencies[1]
    /\ currencies[1]["status"] = Str("test")
    /\ DictGet(currencies_by_key, CompositeKey(currencies[1]))["status"] = Str("test")
    /\ DictGet(currencies_by_key, CompositeKey(currencies[1]))["display_decimals"] =
          registry[1].significant_decimals
    /\ DictGet(currencies_by_key, CompositeKey(currencies[1]))["desc"] = Str("USDC token")

\* The variable holds the JSON text of an array
IsArray(payload) == payload.kind = "json" /\ payload.value.t = "list"

StrictOk(element) == validate_currency_entry(element, TRUE).ok

\* The position (from 1) of the first element that fails strict validation,
\* and of the first element that is no object
Failing(arr) == {k \in 1..Len(arr) : ~StrictOk(arr[k])}

FirstOf(positions) == CHOOSE k \in positions : \A m \in positions : k <= m

NonObjects(arr) == {k \in 1..Len(arr) : arr[k].t # "obj"}

\* C6: when an element of the array fails strict validation, the load returns
\* no list: it raises the error that names the index of the first such element
\* and carries its validation error, and no element reaches the map.
C6_LoadFailsAtFirstInvalidEntry ==
    IsArray(raw) =>
        LET failing == Failing(raw.value.l)
        IN  failing # {} =>
                /\ pc \in {"load", "raised"}
                /\ pc = "load" => idx < FirstOf(failing)
                /\ pc = "raised" =>
                      exc = RuntimeError("Invalid currency entry at",
                                         {FirstOf(failing) - 1},
                                         validate_currency_entry(
                                             raw.value.l[FirstOf(failing)], TRUE).err)
                /\ j = 0
                /\ result = <<>>
                /\ \A p \in 1..Len(currencies_by_key) :
                      \E r \in 1..Len(registry) :
                          currencies_by_key[p].v = DefaultedSeed(registry[r])

\* C6's case: the load failed at the second element of an array, after the
\* first had been validated, with seeds in the map
C6_Witness ==
    /\ pc = "raised"
    /\ IsArray(raw)
    /\ exc.at = {1}
    /\ exc.cause.rule = OnlyOneRule
    /\ Len(currencies) = 1
    /\ Len(currencies_by_key) >= 1

\* The variable's value is not valid JSON, or not the JSON of an array of objects
NotArrayOfObjects(payload) ==
    \/ payload.kind = "not-json"
    \/ payload.kind = "json" /\ payload.value.t # "list"
    \/ IsArray(payload) /\ \E k \in 1..Len(payload.value.l) : payload.value.l[k].t # "obj"

\* The loader's errors that name no index
StructuralMessages == {"must be valid JSON", "must be a JSON list of objects"}

\* C7, as stated: a payload that is not valid JSON or not an array of objects
\* makes the load fail with a structural error, which is not the per-entry
\* error, before any entry is validated.
C7_Original ==
    NotArrayOfObjects(raw) =>
        /\ pc \in {"load", "raised"}
        /\ pc = "raised" =>
              /\ exc.msg \in StructuralMessages
              /\ exc.at = {}
              /\ idx = 0
              /\ currencies = <<>>

\* C7, amended: a non-empty payload that is not valid JSON, or that is the
\* JSON of a value that is no array, makes the load fail with a structural
\* error before any entry is validated; an array with an element that is no
\* object fails with the per-entry error instead, at its first failing element,
\* after the elements before it have been validated, and with the reason
\* "currency entry must be an object" when that element is the non-object.
C7_StructuralErrors ==
    /\ raw.kind = "not-json" =>
          /\ pc = "raised"
          /\ exc = RuntimeError("must be valid JSON", {}, NoErr)
          /\ idx = 0
          /\ currencies = <<>>
    /\ (raw.kind = "json" /\ raw.value.t # "list") =>
          /\ pc = "raised"
          /\ exc = RuntimeError("must be a JSON list of objects", {}, NoErr)
          /\ idx = 0
          /\ currencies = <<>>
    /\ (IsArray(raw) /\ NonObjects(raw.value.l) # {}) =>
          /\ pc \in {"load", "raised"}
          /\ pc = "load" => idx < FirstOf(NonObjects(raw.value.l))
          /\ pc = "raised" =>
                /\ exc.type = "RuntimeError"
                /\ exc.msg = "Invalid currency entry at"
                /\ exc.at = {idx}
                /\ idx < FirstOf(NonObjects(raw.value.l))
                /\ Len(currencies) = idx
                /\ idx + 1 = FirstOf(NonObjects(raw.value.l)) =>
                      exc.cause = Err("currency entry must be an object", "")

\* C7's case: an array whose second element is no object: the first element
\* was validated, and the error is the per-entry one at index 1
C7_Witness ==
    /\ pc = "raised"
    /\ IsArray(raw)
    /\ Len(raw.value.l) = 2
    /\ raw.value.l[2].t # "obj"
    /\ exc.at = {1}
    /\ exc.cause = Err("currency entry must be an object", "")
    /\ Len(currencies) = 1

\* A row whose defaulted seed passes lenient validation
SeedValid(asset) == validate_currency_entry(Obj(DefaultedSeed(asset)), FALSE).ok

\* The load of this payload succeeds
LoadSucceeds(payload) ==
    \/ payload.kind \in {"unset", "empty"}
    \/ IsArray(payload) /\ \A k \in 1..Len(payload.value.l) : StrictOk(payload.value.l[k])

\* C8: nothing is returned unless every seed validates and the load succeeds;
\* a failure leaves the build with its exception and no directory; every entry
\* of a returned directory passes validation and is unchanged by the
\* defaulting pass.
C8_AllOrNothing ==
    /\ pc # "done" => result = <<>>
    /\ (pc = "raised") <=> (exc # NoExc)
    /\ (\E r \in 1..Len(registry) : ~SeedValid(registry[r])) =>
          /\ pc \in {"seeds", "raised"}
          /\ raw = NotRead
          /\ pc = "raised" =>
                /\ ~SeedValid(registry[i + 1])
                /\ exc = ValueError(validate_currency_entry(
                                        Obj(DefaultedSeed(registry[i + 1])), FALSE).err)
    /\ (pc \in {"merge", "done"}) => LoadSucceeds(raw)
    /\ (pc = "raised" /\ raw # NotRead) =>
          /\ ~LoadSucceeds(raw)
          /\ exc.type = "RuntimeError"
    /\ pc = "done" =>
          \A a \in 1..Len(result) :
              /\ validate_currency_entry(Obj(result[a]), FALSE) = Returned(result[a])
              /\ _apply_required_field_defaults(result[a]) = Returned(result[a])

\* C8's case: a directory was returned from seeds and overrides
C8_Witness ==
    /\ pc = "done"
    /\ Len(registry) >= 1
    /\ Len(currencies) >= 1
    /\ Len(result) >= 2

\* The entry of the directory with this key
DirectoryEntry(key) ==
    result[CHOOSE a \in 1..Len(result) : CompositeKey(result[a]) = key]

\* The last element of the array with this key that specifies this field
LastSpecifying(arr, key, f) ==
    CHOOSE b \in 1..Len(arr) :
        /\ CompositeKey(arr[b].o) = key
        /\ f \in DOMAIN arr[b].o
        /\ \A m \in (b + 1)..Len(arr) :
              ~(CompositeKey(arr[m].o) = key /\ f \in DOMAIN arr[m].o)

\* C10: in a returned directory every field that some override of a key
\* specifies has the value of the last array element of that key that
\* specifies it: a later element wins over an earlier one, and a field only an
\* earlier one specifies keeps its value.
C10_LaterOverrideWinsPerField ==
    (pc = "done" /\ IsArray(raw)) =>
        \A a \in 1..Len(raw.value.l) :
            \A f \in DOMAIN raw.value.l[a].o :
                /\ \E b \in 1..Len(result) :
                      CompositeKey(result[b]) = CompositeKey(raw.value.l[a].o)
                /\ f \in DOMAIN DirectoryEntry(CompositeKey(raw.value.l[a].o))
                /\ DirectoryEntry(CompositeKey(raw.value.l[a].o))[f] =
                      raw.value.l[LastSpecifying(raw.value.l,
                                                 CompositeKey(raw.value.l[a].o), f)].o[f]

\* C10's case: two overrides of one key, both with a status and only the
\* first with a name: the directory has the second's status and the first's name
C10_Witness ==
    /\ pc = "done"
    /\ IsArray(raw)
    /\ Len(raw.value.l) = 2
    /\ CompositeKey(raw.value.l[1].o) = CompositeKey(raw.value.l[2].o)
    /\ "status" \in DOMAIN raw.value.l[1].o
    /\ "status" \in DOMAIN raw.value.l[2].o
    /\ raw.value.l[1].o["status"] # raw.value.l[2].o["status"]
    /\ "name" \in DOMAIN raw.value.l[1].o
    /\ "name" \notin DOMAIN raw.value.l[2].o
    /\ DirectoryEntry(CompositeKey(raw.value.l[1].o))["status"] = raw.value.l[2].o["status"]
    /\ DirectoryEntry(CompositeKey(raw.value.l[1].o))["name"] = raw.value.l[1].o["name"]

-----------------------------------------------------------------------------
(* Properties of the seed loop *)

\* The rows consumed so far that have the key of row r, and the last of them
SameKeyRows(r) ==
    {q \in 1..i : CompositeKey(DefaultedSeed(registry[q])) =
                      CompositeKey(DefaultedSeed(registry[r]))}

LastSameKeyRow(r) == CHOOSE q \in SameKeyRows(r) : \A m \in SameKeyRows(r) : m <= q

\* C11: of the seeds with one composite key the map holds one entry, which
\* until an override is merged is the defaulted seed of the last such row, as
\* a whole; and a returned directory has exactly one entry for that key.
C11_LastSeedWins ==
    \A r \in 1..i :
        /\ Cardinality({p \in 1..Len(currencies_by_key) :
                            currencies_by_key[p].k =
                                CompositeKey(DefaultedSeed(registry[r]))}) = 1
        /\ j = 0 =>
              DictGet(currencies_by_key, CompositeKey(DefaultedSeed(registry[r]))) =
                  DefaultedSeed(registry[LastSameKeyRow(r)])
        /\ pc = "done" =>
              Cardinality({a \in 1..Len(result) :
                               CompositeKey(result[a]) =
                                   CompositeKey(DefaultedSeed(registry[r]))}) = 1

\* C11's case: two rows with the same code and issuer and different decimals
\* and no override: the directory's one entry has the second row's decimals
C11_Witness ==
    /\ pc = "done"
    /\ Len(registry) = 2
    /\ registry[1].code = registry[2].code
    /\ registry[1].issuer = registry[2].issuer
    /\ registry[1].significant_decimals # registry[2].significant_decimals
    /\ currencies = <<>>
    /\ Len(result) = 1
    /\ result[1]["display_decimals"] = registry[2].significant_decimals

\* The composite keys of the registry's rows
SeedKeys == {CompositeKey(DefaultedSeed(registry[r])) : r \in 1..Len(registry)}

\* The last registry row of an entry's composite key
LastSeedRowOf(entry) ==
    CHOOSE r \in 1..Len(registry) :
        /\ CompositeKey(DefaultedSeed(registry[r])) = CompositeKey(entry)
        /\ \A q \in (r + 1)..Len(registry) :
              CompositeKey(DefaultedSeed(registry[q])) # CompositeKey(entry)

\* The seed of a registry row with the three defaults status, desc and
\* is_asset_anchored, and no other field
SeedPlusThreeDefaults(asset) ==
    [code |-> asset.code,
     issuer |-> asset.issuer,
     display_decimals |-> asset.significant_decimals,
     status |-> Str("live"),
     desc |-> Str(asset.code.s \o " token"),
     is_asset_anchored |-> Bool(TRUE)]

\* The seed of a registry row with all five defaults of lines 240-245
SeedPlusFiveDefaults(asset) ==
    [code |-> asset.code,
     issuer |-> asset.issuer,
     display_decimals |-> asset.significant_decimals,
     status |-> Str("live"),
     desc |-> Str(asset.code.s \o " token"),
     is_asset_anchored |-> Bool(TRUE),
     anchor_asset_type |-> Str("fiat"),
     anchor_asset |-> asset.code]

\* C12 as stated: with the variable unset or empty, each returned entry is
\* equal to its seed (code, issuer, display_decimals) plus the three defaults
\* status "live", desc "<code> token" and is_asset_anchored true.
C12_Original ==
    (raw.kind \in {"unset", "empty"} /\ pc = "done") =>
        \A a \in 1..Len(result) :
            result[a] = SeedPlusThreeDefaults(registry[LastSeedRowOf(result[a])])

\* C12: with the variable unset or empty the load returns the empty list
\* without an error, and the directory has one entry per distinct seed key;
\* each entry has exactly eight fields: the code, issuer and decimals of the
\* (last) row of that key, status "live", desc "<code> token",
\* is_asset_anchored true, anchor_asset_type "fiat" and anchor_asset equal to
\* the code.
C12_NoOverridesGivesDefaultedSeeds ==
    raw.kind \in {"unset", "empty"} =>
        /\ pc \in {"merge", "done"}
        /\ exc = NoExc
        /\ currencies = <<>>
        /\ pc = "done" =>
              /\ Len(result) = Cardinality(SeedKeys)
              /\ {CompositeKey(result[a]) : a \in 1..Len(result)} = SeedKeys
              /\ \A a \in 1..Len(result) :
                    /\ \E r \in 1..Len(registry) :
                          CompositeKey(DefaultedSeed(registry[r])) =
                              CompositeKey(result[a])
                    /\ DOMAIN result[a] =
                           {"code", "issuer", "display_decimals", "status", "desc",
                            "is_asset_anchored", "anchor_asset_type", "anchor_asset"}
                    /\ result[a] =
                           SeedPlusFiveDefaults(registry[LastSeedRowOf(result[a])])

\* C12's case: an empty variable and two seeds of different keys, each
\* returned with the two anchor defaults next to the three listed ones
C12_Witness ==
    /\ pc = "done"
    /\ raw.kind = "empty"
    /\ Len(registry) = 2
    /\ Len(result) = 2
    /\ \A a \in 1..2 :
          /\ result[a]["status"] = Str("live")
          /\ result[a]["anchor_asset_type"] = Str("fiat")
          /\ result[a]["anchor_asset"] = result[a]["code"]

\* C13: an entry that validate_currency_entry accepts is returned with exactly
\* the fields and values of the input, and validating the returned entry again
\* in lenient mode succeeds and returns it equal.
C13_ValidationReturnsInputUnchanged ==
    (fpc = "validated" /\ out.ok) =>
        /\ entry_in.t = "obj"
        /\ out.entry = entry_in.o
        /\ validate_currency_entry(Obj(out.entry), FALSE) = Returned(out.entry)

\* C13's case: a lenient validation accepted an entry that has an unknown
\* field and a null status
C13_Witness ==
    /\ fpc = "validated"
    /\ out.ok
    /\ "foo" \in DOMAIN entry_in.o
    /\ "status" \in DOMAIN entry_in.o
    /\ entry_in.o["status"] = Null
    /\ out.entry = entry_in.o

-----------------------------------------------------------------------------
(* The strict flag of the build's validations *)

\* C14 as stated: the build's two validation steps, on a defaulted seed and on
\* a merged entry, are lenient calls.
C14_Original ==
    call.by \in {"seed", "merge"} => call.strict = FALSE

\* C14: the seed loop validates with strict=False; the loader and the merge
\* loop validate with strict=True, the default; and the merge loop's strict
\* validation has the outcome the lenient one would have, because a merged
\* entry has known fields only.
C14_StrictFlagOfBuildValidations ==
    /\ call.by = "seed" => call.strict = FALSE
    /\ call.by \in {"loader", "merge"} => call.strict = TRUE
    /\ (pc = "merge" /\ j < Len(currencies)) =>
          LET merged == _apply_required_field_defaults(
                            Merged(currencies_by_key, currencies[j + 1]))
          IN  /\ merged.ok
              /\ DOMAIN merged.entry \subseteq _KNOWN_CURRENCY_FIELDS
              /\ validate_currency_entry(Obj(merged.entry), TRUE) =
                     validate_currency_entry(Obj(merged.entry), FALSE)

\* C14's case: the merge loop has validated a merged entry
C14_Witness ==
    /\ call.by = "merge"
    /\ call.strict = TRUE
    /\ j >= 1
    /\ pc = "done"

-----------------------------------------------------------------------------
(* The defaulting pass's assertion inside the build *)

DefaultingInvariantRule == "missing required field after applying defaults"

\* C15: the required-fields assertion of the defaulting pass never fires in
\* the build: the pass succeeds on the next seed and on the next merged entry,
\* and an exception that leaves the build is a validation error of a seed or
\* of a merged entry, or the loader's structural or per-entry error.
C15_DefaultingAssertionUnreachable ==
    /\ exc.cause.rule # DefaultingInvariantRule
    /\ (pc = "seeds" /\ i < Len(registry)) =>
          _apply_required_field_defaults(SeedCurrency(registry[i + 1])).ok
    /\ (pc = "merge" /\ j < Len(currencies)) =>
          _apply_required_field_defaults(
              Merged(currencies_by_key, currencies[j + 1])).ok
    /\ pc = "raised" =>
          \/ /\ exc.type = "ValueError"
             /\ exc.cause.rule # ""
             /\ \/ /\ raw = NotRead
                   /\ i < Len(registry)
                   /\ exc.cause =
                          validate_currency_entry(
                              Obj(WithDefaults(SeedCurrency(registry[i + 1]))),
                              FALSE).err
                \/ /\ j < Len(currencies)
                   /\ exc.cause =
                          validate_currency_entry(
                              Obj(WithDefaults(
                                      Merged(currencies_by_key, currencies[j + 1]))),
                              TRUE).err
          \/ /\ exc.type = "RuntimeError"
             /\ \/ exc.msg \in StructuralMessages /\ exc.cause = NoErr
                \/ /\ exc.msg = "Invalid currency entry at"
                   /\ exc.at = {idx}
                   /\ exc.cause = validate_currency_entry(data[idx + 1], TRUE).err

\* C15's case: the defaulting pass has run on an override of a key that no
\* seed has, so on an entry holding the override's fields only, and the build
\* returned it
C15_Witness ==
    /\ pc = "done"
    /\ \E a \in 1..Len(result) :
          /\ CompositeKey(result[a]) \notin SeedKeys
          /\ \E b \in 1..Len(currencies) :
                /\ CompositeKey(currencies[b]) = CompositeKey(result[a])
                /\ \E field \in _ANCHOR_TESTS_REQUIRED_FIELDS :
                      field \notin DOMAIN currencies[b]

-----------------------------------------------------------------------------
(* The integer fields *)

\* What C16 lets pass: absent, null, or an integer (no boolean) within the bounds
IntegerOrAbsent(entry, field, min_value, max_value) ==
    \/ field \notin DOMAIN entry
    \/ entry[field] = Null
    \/ /\ entry[field].t = "int"
       /\ \A m \in min_value : entry[field].n >= m
       /\ \A m \in max_value : entry[field].n <= m

IntegerFields == {"display_decimals", "fixed_number", "max_number"}

WithoutIntegerFields(entry) == [f \in DOMAIN entry \ IntegerFields |-> entry[f]]

\* C16: an entry whose other fields are valid is accepted exactly when each of
\* display_decimals (0 to 7), fixed_number and max_number (0 or more) is
\* absent, null, or an integer within its bounds; a string, a boolean, a list
\* or an integer out of the bounds fails.
C16_IntegerFieldsPassExactlyWhenInRange ==
    (/\ fpc = "validated"
     /\ entry_in.t = "obj"
     /\ validate_currency_entry(Obj(WithoutIntegerFields(entry_in.o)), strict_in).ok) =>
        (out.ok <=>
            /\ IntegerOrAbsent(entry_in.o, "display_decimals", Limit(0), Limit(7))
            /\ IntegerOrAbsent(entry_in.o, "fixed_number", Limit(0), NoLimit)
            /\ IntegerOrAbsent(entry_in.o, "max_number", Limit(0), NoLimit))

\* An entry with display_decimals true has been accepted
C16_BooleanAccepted ==
    /\ fpc = "validated"
    /\ out.ok
    /\ "display_decimals" \in DOMAIN entry_in.o
    /\ entry_in.o["display_decimals"] = Bool(TRUE)
    /\ out.entry["display_decimals"] = Bool(TRUE)

-----------------------------------------------------------------------------
(* The partner webhook of abroad/webhooks.py *)

\* JsonResponse({"detail": detail}, status=status)
JsonResponse(detail, status) == [status |-> status, detail |-> detail, ok |-> FALSE]

\* Line 106: JsonResponse({"ok": True})
OkResponse == [status |-> 200, detail |-> "", ok |-> TRUE]

\* An exception that leaves the view: the framework answers 500
Unhandled(exception) == [status |-> 500, detail |-> exception, ok |-> FALSE]

\* Transaction ids a partner may send, and the memos line 15-19 gives them
Uuid1 == "11111111-2222-3333-4444-555555555555"

Uuid1Compact == "11111111222233334444555555555555"

Uuid2 == "aaaaaaaa-bbbb-cccc-dddd-eeeeeeeeeeee"

Uuid3 == "99999999-8888-7777-6666-555555555555"

Memo1 == "ERERESIiMzNERFVVVVVVVQ=="

Memo2 == "qqqqqru7zMzd3e7u7u7u7g=="

Memo3 == "mZmZmYiId3dmZlVVVVVVVQ=="

\* Lines 15-19: drop the dashes, read the hex digits as bytes, encode them in
\* base64; bytes.fromhex raises for a text that is not hex digits in pairs.
\* The encoding is tabulated for the ids of the model.
_uuid_to_base64(uuid_str) ==
    CASE uuid_str \in {Uuid1, Uuid1Compact} -> [ok |-> TRUE, value |-> Memo1]
      [] uuid_str = Uuid2 -> [ok |-> TRUE, value |-> Memo2]
      [] uuid_str = Uuid3 -> [ok |-> TRUE, value |-> Memo3]
      [] uuid_str = "" -> [ok |-> TRUE, value |-> ""]
      [] OTHER -> [ok |-> FALSE, value |-> ""]

\* str.upper(), tabulated for the partner statuses of the model
upper(status) ==
    CASE status = "payment_failed" -> "PAYMENT_FAILED"
      [] status = "Wrong_Amount" -> "WRONG_AMOUNT"
      [] OTHER -> status

\* Lines 21-31
_map_partner_status(status) ==
    LET normalized == upper(status)
    IN  IF normalized = "PAYMENT_COMPLETED" THEN "completed"
        ELSE IF normalized \in {"PAYMENT_FAILED", "WRONG_AMOUNT"} THEN "error"
        ELSE IF normalized = "PROCESSING_PAYMENT" THEN "pending_anchor"
        ELSE "pending_user_transfer_start"

\* A Transaction row, as far as the view reads and writes it
TransactionRow(memo, started_at, status, refunded, status_message) ==
    [memo |-> memo, started_at |-> started_at, status |-> status,
     refunded |-> refunded, status_message |-> status_message]

\* The rows the store may hold when the view starts to serve
StoredRows ==
    << TransactionRow(Memo1, 1, "pending_user_transfer_start", FALSE, Null),
       TransactionRow(Memo1, 2, "pending_anchor", FALSE, Str("")),
       TransactionRow(Memo2, 1, "pending_anchor", FALSE, Str("custom note")) >>

\* The table has no order of its own: a store of n rows is listed in the
\* order of StoredRows, and may hold a row more than once
Stores(n) ==
    { [k \in DOMAIN rows |-> StoredRows[rows[k]]] :
        rows \in { r \in SeqsUpTo(DOMAIN StoredRows, n) :
                     \A a, b \in DOMAIN r : a < b => r[a] <= r[b] } }

MaxTransactions == 1

AbroadSecret == "s3cret"

\* The request: its method, the X-Abroad-Webhook-Secret header, the secret
\* query parameter (Null when not sent) and its body
Request(method, header, query, body) ==
    [method |-> method, header |-> header, query |-> query, body |-> body]

\* A body: bytes that are not UTF-8, a text that is not JSON, or a JSON value
Body(kind, value) == [kind |-> kind, value |-> value]

\* {"event": event, "data": {"id": id, "status": status}}
EventBody(event, id, status) ==
    Body("json", Obj([event |-> event,
                      data |-> Obj([id |-> id, status |-> status])]))

PartnerStatuses ==
    {Str("PAYMENT_COMPLETED"), Str("PAYMENT_FAILED"), Null}

Bodies ==
    { Body("undecodable", Null), Body("not-json", Null),
      Body("json", List(<<>>)),
      Body("json", Obj([event |-> Str("transaction.updated")])),
      Body("json", Obj([event |-> Str("transaction.updated"), data |-> Str(Uuid1)])),
      EventBody(Int_(1), Str(Uuid1), Str("PAYMENT_FAILED")),
      EventBody(Str("transaction.updated"), Int_(1), Str("PAYMENT_FAILED")),
      EventBody(Str("transaction.deleted"), Str(Uuid1), Str("PAYMENT_FAILED")),
      EventBody(Str("transaction.updated"), Str("not-a-uuid"), Str("PAYMENT_FAILED")),
      EventBody(Str("transaction.updated"), Str(Uuid3), Str("PAYMENT_FAILED")),
      EventBody(Str("transaction.created"), Str(Uuid1Compact), Str("Wrong_Amount")),
      EventBody(Str("transaction.created"), Str(Uuid2), Str("PROCESSING_PAYMENT")),
      EventBody(Str("transaction.updated"), Str(Uuid2), Str("AWAITING_PAYMENT")),
      EventBody(Str("transaction.updated"), Str(Uuid2), Str("payment_failed")) }
    \cup { EventBody(Str("transaction.updated"), Str(Uuid1), st) : st \in PartnerStatuses }

\* The body most requests of the model carry when it is not the body that varies
UpdateBody == EventBody(Str("transaction.updated"), Str(Uuid1), Str("PAYMENT_FAILED"))

Requests ==
    { Request("POST", Str(AbroadSecret), Null, b) : b \in Bodies }
    \cup { Request("POST", Null, Null, UpdateBody),
           Request("POST", Null, Str(AbroadSecret), UpdateBody),
           Request("POST", Str(""), Str(AbroadSecret), UpdateBody),
           Request("POST", Str("wrong"), Str(AbroadSecret), UpdateBody),
           Request("POST", Str(AbroadSecret), Str("wrong"), UpdateBody),
           Request("POST", Null, Str("wrong"), Body("undecodable", Null)),
           Request("GET", Str("wrong"), Null, UpdateBody) }

\* A faulty variant of line 55: the query parameter is looked at first
ProvidedSecretQueryFirst(req) == IF Truthy(req.query) THEN req.query ELSE req.header

\* Line 55: request.headers.get("X-Abroad-Webhook-Secret") or request.GET.get("secret")
ProvidedSecret(req) == IF Truthy(req.header) THEN req.header ELSE req.query

\* Line 65: payload.get("data") or {}
DataOf(payload) ==
    IF Truthy(Get(payload.o, "data")) THEN Get(payload.o, "data") ELSE Obj(<<>>)

\* Lines 49-81: the view up to the database lookup: the response it returns
\* there, or (lookup) the memo it goes on to look for and the partner status
Reject(resp) == [lookup |-> FALSE, response |-> resp, memo |-> "", status |-> Null]

BeforeLookup(req, required_secret) ==
    IF req.method # "POST"
    THEN Reject(JsonResponse("Method not allowed", 405))
    ELSE IF Truthy(required_secret) /\ ProvidedSecret(req) # required_secret
    THEN Reject(JsonResponse("Forbidden", 403))
    ELSE IF req.body.kind # "json"
    THEN Reject(JsonResponse("Invalid JSON", 400))
    ELSE IF req.body.value.t # "obj"
    THEN Reject(Unhandled("AttributeError"))
    ELSE LET payload == req.body.value
             event == Get(payload.o, "event")
             data_obj == DataOf(payload)
         IN  IF data_obj.t # "obj" \/ event.t # "str"
             THEN Reject(JsonResponse("Invalid payload shape", 400))
             ELSE IF Get(data_obj.o, "id").t # "str"
             THEN Reject(JsonResponse("Missing data.id", 400))
             ELSE IF event.s \notin {"transaction.updated", "transaction.created"}
             THEN Reject(JsonResponse("Ignored event", 200))
             ELSE IF ~_uuid_to_base64(Get(data_obj.o, "id").s).ok
             THEN Reject(JsonResponse("Invalid data.id", 400))
             ELSE [lookup |-> TRUE, response |-> OkResponse,
                   memo |-> _uuid_to_base64(Get(data_obj.o, "id").s).value,
                   status |-> Get(data_obj.o, "status")]

\* Lines 84-88: filter(memo=memo_value).order_by("-started_at").first(): the
\* rows one of which the query returns; rows with equal started_at come in an
\* order the database chooses
FirstByStartedAt(rows, memo_value) ==
    {k \in 1..Len(rows) :
        /\ rows[k].memo = memo_value
        /\ \A m \in 1..Len(rows) :
              rows[m].memo = memo_value => rows[m].started_at <= rows[k].started_at}

\* The model instance of a row: the row's position in the table (its primary
\* key) and the field values read
Instance(k, row) == [k |-> k, row |-> row]

\* A faulty variant of the update: the message is set whether or not the
\* transaction has one
SavedAlwaysDefaultMessage(instance, status) ==
    IF _map_partner_status(status.s) = "error"
    THEN [instance EXCEPT !.status = "error", !.refunded = TRUE,
                          !.status_message = Str("Refunded due to partner error")]
    ELSE [instance EXCEPT !.status = _map_partner_status(status.s)]

\* Lines 94-100: the instance after the view's assignments, for a partner
\* status that is a string
Saved(instance, status) ==
    IF _map_partner_status(status.s) = "error"
    THEN [instance EXCEPT !.status = "error", !.refunded = TRUE,
                          !.status_message =
                              IF Truthy(instance.status_message)
                              THEN instance.status_message
                              ELSE Str("Refunded due to partner error")]
    ELSE [instance EXCEPT !.status = _map_partner_status(status.s)]

\* Lines 101, 104: the update_fields of the view's save()
UpdateFields(status) ==
    IF _map_partner_status(status.s) = "error"
    THEN {"status", "refunded", "status_message"}
    ELSE {"status"}

\* Model.save(update_fields=fields): the stored row takes the named fields
\* from the instance and keeps the others
Written(stored, instance, fields) ==
    [f \in DOMAIN stored |-> IF f \in fields THEN instance[f] ELSE stored[f]]

\* Lines 107-108: an exception of the lookup or of the save
ServerError == JsonResponse("Server error", 500)

\* withdrawal.py line 46: request.query_params.get("amount_expected"), which
\* is None when the parameter is not sent
Amounts == {Str("10"), Null}

\* withdrawal.py line 46: Decimal(None) raises a TypeError; tabulated for the
\* amounts of the model
DecimalRaises(value) == value # Str("10")

InitWebhook ==
    /\ BuildIdle
    /\ CallIdle
    /\ pc = "serving"
    /\ secret \in {Null, Str(AbroadSecret)}
    /\ transactions \in Stores(MaxTransactions)
    /\ request = NoRequest
    /\ response = NoResponse
    /\ polaris_tx = NoInstance
    /\ transaction = NoInstance

\* Lines 34-93: the view takes up a request and answers it, unless it has
\* found the transaction and the partner status is a string: then the row is
\* loaded and the save is still to come. The lookup may raise (lines 107-108).
abroad_transaction_webhook ==
    /\ pc = "serving"
    /\ polaris_tx = NoInstance
    /\ \E req \in Requests :
          LET before == BeforeLookup(req, secret)
              found == FirstByStartedAt(transactions, before.memo)
          IN  /\ request' = req
              /\ \/ IF ~before.lookup
                    THEN /\ response' = before.response
                         /\ polaris_tx' = NoInstance
                    ELSE IF found = {}
                    THEN /\ response' = JsonResponse("Transaction not found", 404)
                         /\ polaris_tx' = NoInstance
                    ELSE IF before.status.t # "str"
                    THEN /\ response' = OkResponse
                         /\ polaris_tx' = NoInstance
                    ELSE /\ response' = NoResponse
                         /\ \E k \in found : polaris_tx' = Instance(k, transactions[k])
                 \/ /\ before.lookup
                    /\ response' = ServerError
                    /\ polaris_tx' = NoInstance
    /\ UNCHANGED <<secret, transactions, transaction>>
    /\ UNCHANGED buildVars
    /\ UNCHANGED callVars

\* Lines 94-106: the view sets the fields of the instance it loaded, saves
\* the fields it names and answers; the save may raise (lines 107-108)
save_polaris_tx ==
    /\ pc = "serving"
    /\ polaris_tx # NoInstance
    /\ LET status == BeforeLookup(request, secret).status
           saved == Saved(polaris_tx.row, status)
       IN  \/ /\ transactions' =
                     [transactions EXCEPT
                        ![polaris_tx.k] = Written(@, saved, UpdateFields(status))]
              /\ response' = OkResponse
           \/ /\ response' = ServerError
              /\ UNCHANGED transactions
    /\ polaris_tx' = NoInstance
    /\ UNCHANGED <<secret, request, transaction>>
    /\ UNCHANGED buildVars
    /\ UNCHANGED callVars

\* withdrawal.py line 42: the transaction that after_interactive_flow is
\* given has been loaded by its caller
load_transaction ==
    /\ pc = "serving"
    /\ transaction = NoInstance
    /\ \E k \in 1..Len(transactions) : transaction' = Instance(k, transactions[k])
    /\ UNCHANGED <<secret, transactions, request, response, polaris_tx>>
    /\ UNCHANGED buildVars
    /\ UNCHANGED callVars

\* withdrawal.py lines 42-48: set amount_expected and the status, then save()
\* without update_fields, which writes every field of the instance
after_interactive_flow ==
    /\ pc = "serving"
    /\ transaction # NoInstance
    /\ \E amount \in Amounts :
          IF DecimalRaises(amount)
          THEN UNCHANGED transactions
          ELSE transactions' =
                   [transactions EXCEPT
                      ![transaction.k] =
                          [transaction.row EXCEPT
                             !.status = "pending_user_transfer_start"]]
    /\ transaction' = NoInstance
    /\ UNCHANGED <<secret, request, response, polaris_tx>>
    /\ UNCHANGED buildVars
    /\ UNCHANGED callVars

NextWebhook ==
    \/ abroad_transaction_webhook
    \/ save_polaris_tx
    \/ load_transaction
    \/ after_interactive_flow

SpecWebhook == InitWebhook /\ [][NextWebhook]_vars

-----------------------------------------------------------------------------
(* Properties of the webhook *)

\* data.status of a request whose body is a JSON object with an object as
\* data, Null otherwise
EventStatus(req) ==
    IF /\ req.body.kind = "json"
       /\ req.body.value.t = "obj"
       /\ DataOf(req.body.value).t = "obj"
    THEN Get(DataOf(req.body.value).o, "status")
    ELSE Null

\* The partner statuses of the model that are PAYMENT_FAILED or WRONG_AMOUNT
\* in some letter case
ErrorPartnerStatuses ==
    {Str("PAYMENT_FAILED"), Str("payment_failed"), Str("WRONG_AMOUNT"), Str("Wrong_Amount")}

RefundMessage == Str("Refunded due to partner error")

\* A step of the webhook view: after_interactive_flow and the load before it
\* are the steps that change the integration's instance
WebhookStep == transaction' = transaction

\* C18: in every step of the view, a transaction's refunded flag or
\* status_message changes only if the event's partner status is
\* PAYMENT_FAILED or WRONG_AMOUNT in any letter case; such an event, when
\* saved, leaves its transaction with status error, refunded true and the
\* default message only where there was none; any other event changes at most
\* the status; and no step of the view puts refunded back to false.
C18_RefundWrittenOnlyByErrorEvents ==
    [][ WebhookStep =>
          /\ Len(transactions') = Len(transactions)
          /\ \A k \in 1..Len(transactions) :
                LET old == transactions[k]
                    new == transactions'[k]
                    isError == EventStatus(request') \in ErrorPartnerStatuses
                IN  /\ new.memo = old.memo
                    /\ new.started_at = old.started_at
                    /\ new # old => response' = OkResponse
                    /\ (new.refunded # old.refunded
                          \/ new.status_message # old.status_message) => isError
                    /\ (new # old /\ isError) =>
                          /\ new.status = "error"
                          /\ new.refunded = TRUE
                          /\ new.status_message =
                                 IF old.status_message \in {Null, Str("")}
                                 THEN RefundMessage
                                 ELSE old.status_message
                    /\ old.refunded => new.refunded
          /\ (response' = OkResponse /\ EventStatus(request') \in ErrorPartnerStatuses) =>
                \E k \in 1..Len(transactions) :
                    /\ transactions'[k].status = "error"
                    /\ transactions'[k].refunded = TRUE
                    /\ Truthy(transactions'[k].status_message)
      ]_vars

\* C18's case: a transaction with a message of its own was refunded by an
\* error event and a later event changed its status alone
C18_Witness ==
    \E k \in 1..Len(transactions) :
        /\ transactions[k].refunded = TRUE
        /\ transactions[k].status_message = Str("custom note")
        /\ transactions[k].status = "pending_anchor"
        /\ response = OkResponse

\* The view got as far as the lookup with the latest request and no stored
\* transaction has the memo of its id
UnknownTransaction ==
    /\ request # NoRequest
    /\ BeforeLookup(request, secret).lookup
    /\ \A k \in 1..Len(transactions) :
          transactions[k].memo # BeforeLookup(request, secret).memo

\* C19: a well-formed event whose id matches no stored memo is accepted: the
\* answer is not an error response.
C19_UnknownTransactionIsAccepted ==
    UnknownTransaction => response.status \in 200..299

\* An event for an id that no stored memo matches has been answered 404
C19_NotFoundAnswered ==
    /\ UnknownTransaction
    /\ request.body = EventBody(Str("transaction.updated"), Str(Uuid3), Str("PAYMENT_FAILED"))
    /\ response = JsonResponse("Transaction not found", 404)

\* The latest request's secret is missing or differs from the configured one
BadSecret ==
    /\ request # NoRequest
    /\ Truthy(secret)
    /\ (IF request.header \notin {Null, Str("")} THEN request.header ELSE request.query)
           # secret

\* C20 as stated: with a secret configured, a request whose secret is missing
\* or differs is answered 403.
C20_Original ==
    BadSecret => response.status = 403

\* The body is one the view goes no further with: not decodable, not JSON,
\* no JSON object, data no object, event no string, data.id no string, or an
\* event type other than the two handled
RejectedBody(req) ==
    \/ req.body.kind # "json"
    \/ req.body.value.t # "obj"
    \/ LET payload == req.body.value.o
           event == Get(payload, "event")
           body_data == IF Get(payload, "data") \in {Null, Str(""), List(<<>>), Obj(<<>>)}
                        THEN Obj(<<>>)
                        ELSE Get(payload, "data")
       IN  \/ event.t # "str"
           \/ body_data.t # "obj"
           \/ Get(body_data.o, "id").t # "str"
           \/ event.s \notin {"transaction.updated", "transaction.created"}

\* C20: in every step of the view a request that is not a POST is answered 405;
\* a POST whose secret is missing or differs from the configured one is
\* answered 403, whatever its body; and these requests, like those with an
\* undecodable or malformed body or an event type other than
\* transaction.updated and transaction.created, load no transaction and leave
\* the transactions as they were.
C20_RejectedRequestsChangeNothing ==
    [][ WebhookStep =>
          /\ request'.method # "POST" =>
                /\ response' = JsonResponse("Method not allowed", 405)
                /\ polaris_tx' = NoInstance
                /\ transactions' = transactions
          /\ (request'.method = "POST" /\ BadSecret') =>
                /\ response' = JsonResponse("Forbidden", 403)
                /\ polaris_tx' = NoInstance
                /\ transactions' = transactions
          /\ RejectedBody(request') =>
                /\ polaris_tx' = NoInstance
                /\ transactions' = transactions
                /\ response' # OkResponse
      ]_vars

\* C20's case: a POST with a wrong header secret, the right one in the query
\* and a well-formed error event for a stored transaction was answered 403
C20_Witness ==
    /\ request # NoRequest
    /\ request.method = "POST"
    /\ request.header = Str("wrong")
    /\ request.query = secret
    /\ request.body = UpdateBody
    /\ response = JsonResponse("Forbidden", 403)
    /\ \E k \in 1..Len(transactions) : transactions[k].memo = Memo1
    /\ \A k \in 1..Len(transactions) : ~transactions[k].refunded

====
